---- MODULE Spec2Model ----
(***************************************************************************)
(* Model of archpython/main.py: the naming and placement rules of the      *)
(* scaffolding tool, the DTO and service generators, the interactive       *)
(* configuration step and the two commands ("m": create module, "s":       *)
(* create service), acting on a filesystem of directories and files.       *)
(*                                                                         *)
(* Text is modelled as sequences of one-character strings, so that         *)
(* str.lower, str.capitalize, str.split and str.replace are computed       *)
(* character by character.  A path is the sequence of its components.      *)
(***************************************************************************)
EXTENDS Integers, Sequences, FiniteSets, TLC

\* ------------------------------------------------------------------ bounds
MaxRuns == 2    \* commands ("m" or "s") issued in one behaviour
MaxPre == 1     \* files already on disk before the first command

\* ------------------------------------------------------------- characters
LowerLetters == <<"a", "b", "c", "d", "e", "f", "g", "h", "i", "j", "k", "l", "m", "n", "o", "p", "q", "r", "s", "t", "u", "v", "w", "x", "y", "z">>
UpperLetters == <<"A", "B", "C", "D", "E", "F", "G", "H", "I", "J", "K", "L", "M", "N", "O", "P", "Q", "R", "S", "T", "U", "V", "W", "X", "Y", "Z">>

lower_char(c) ==
    IF \E i \in 1..Len(UpperLetters) : UpperLetters[i] = c
    THEN LowerLetters[CHOOSE i \in 1..Len(UpperLetters) : UpperLetters[i] = c]
    ELSE c

upper_char(c) ==
    IF \E i \in 1..Len(LowerLetters) : LowerLetters[i] = c
    THEN UpperLetters[CHOOSE i \in 1..Len(LowerLetters) : LowerLetters[i] = c]
    ELSE c

\* str.lower()
lower(s) == [i \in 1..Len(s) |-> lower_char(s[i])]

\* str.capitalize(): first character upper-cased, the rest lower-cased
capitalize(w) ==
    IF w = <<>> THEN <<>> ELSE <<upper_char(w[1])>> \o lower(Tail(w))

\* str.split(sep) for a one-character separator
RECURSIVE split(_, _)
split(s, sep) ==
    IF \A i \in 1..Len(s) : s[i] # sep
    THEN <<s>>
    ELSE LET i == CHOOSE k \in 1..Len(s) :
                      s[k] = sep /\ \A j \in 1..(k - 1) : s[j] # sep
         IN  <<SubSeq(s, 1, i - 1)>> \o split(SubSeq(s, i + 1, Len(s)), sep)

\* "".join(words)
RECURSIVE join(_)
join(words) ==
    IF words = <<>> THEN <<>> ELSE Head(words) \o join(Tail(words))

\* str.replace(old, new): every non-overlapping occurrence, left to right
RECURSIVE replace(_, _, _)
replace(s, old, new) ==
    IF Len(s) < Len(old) THEN s
    ELSE IF SubSeq(s, 1, Len(old)) = old
         THEN new \o replace(SubSeq(s, Len(old) + 1, Len(s)), old, new)
         ELSE <<s[1]>> \o replace(Tail(s), old, new)

\* "".join(word.capitalize() for word in s.split("_"))
pascal(s) ==
    LET words == split(s, "_")
    IN  join([i \in 1..Len(words) |-> capitalize(words[i])])

\* ---------------------------------------------------------------- literals
SRC == <<"s", "r", "c">>
MODULES == <<"m", "o", "d", "u", "l", "e", "s">>
SERVICES == <<"s", "e", "r", "v", "i", "c", "e", "s">>
DTOS == <<"d", "t", "o", "s">>
SHARED == <<"s", "h", "a", "r", "e", "d">>
INIT_PY == <<"_", "_", "i", "n", "i", "t", "_", "_", ".", "p", "y">>
REQUEST_DTO == <<"_", "r", "e", "q", "u", "e", "s", "t", "_", "d", "t", "o">>
RESPONSE_DTO == <<"_", "r", "e", "s", "p", "o", "n", "s", "e", "_", "d", "t", "o">>
SERVICE_FILE == <<"_", "s", "e", "r", "v", "i", "c", "e">>
PY == <<".", "p", "y">>
Service == <<"S", "e", "r", "v", "i", "c", "e">>
None == <<"N", "o", "n", "e">>

\* service_types of get_service_config, in menu order
service_types ==
    << <<"d", "o", "m", "a", "i", "n">>,
       <<"a", "p", "p", "l", "i", "c", "a", "t", "i", "o", "n">>,
       <<"i", "n", "f", "r", "a">>,
       SHARED >>

\* ------------------------------------------------------------------ inputs
\* names the operator types at the service-name prompt
ServiceNames ==
    { <<"O", "r", "d", "e", "r">>,
      <<"s", "e", "r", "v", "i", "c", "e", "_", "d", "e", "s", "k">> }

\* names the operator passes to the create-module command
ModuleNames == { <<"b", "i", "l", "l", "i", "n", "g">>, SHARED }

\* ------------------------------------------------------- ModuleManager
base_path == <<SRC, MODULES>>

get_module_path(module_name) == base_path \o <<module_name>>

\* names of the immediate subdirectories of base_path
iterdir_dirs(ds) ==
    { d[Len(base_path) + 1] : d \in { e \in ds : /\ Len(e) = Len(base_path) + 1
                                                  /\ SubSeq(e, 1, Len(base_path)) = base_path } }

\* the comprehension of get_available_modules: 'shared' is filtered out
get_available_modules_unfiltered(ds) == iterdir_dirs(ds)

get_available_modules(ds) == { n \in iterdir_dirs(ds) : n # SHARED }

\* every order in which the directory may be enumerated
RECURSIVE Orderings(_)
Orderings(S) ==
    IF S = {} THEN { <<>> }
    ELSE UNION { { <<x>> \o t : t \in Orderings(S \ {x}) } : x \in S }

\* ------------------------------------------------------- DTOGenerator
dto_service_name(service_name) == lower(service_name)

dtos_dir(module_path, service_name, service_type) ==
    IF service_type = SHARED
    THEN module_path \o <<SERVICES, dto_service_name(service_name), DTOS>>
    ELSE module_path \o <<DTOS, service_name>>

request_class_name(service_name) == pascal(service_name \o REQUEST_DTO)

response_class_name(service_name) == pascal(service_name \o RESPONSE_DTO)

request_file(module_path, service_name, service_type) ==
    dtos_dir(module_path, service_name, service_type)
        \o <<dto_service_name(service_name) \o REQUEST_DTO \o PY>>

response_file(module_path, service_name, service_type) ==
    dtos_dir(module_path, service_name, service_type)
        \o <<dto_service_name(service_name) \o RESPONSE_DTO \o PY>>

init_file(module_path, service_name, service_type) ==
    dtos_dir(module_path, service_name, service_type) \o <<INIT_PY>>

\* ---------------------------------------------------------- file contents
\* A file's text is a sequence of lines; a line is a record naming the
\* statement it holds, the package it refers to and the identifiers in it.
Line(kind, pkg, names) == [kind |-> kind, pkg |-> pkg, names |-> names]

Blank == Line("blank", <<>>, <<>>)

\* text that was not produced by the generators
Foreign == << Line("foreign", <<>>, <<>>) >>

\* f"class {cls}:\n    pass\n"
dto_stub(cls) == << Line("class", <<>>, <<cls>>), Line("pass", <<>>, <<>>) >>

\* the re-exporting __init__.py; a leading empty component is the leading dot
init_content(service_name) ==
    << Line("from_import", << <<>>, dto_service_name(service_name) \o REQUEST_DTO >>,
            << request_class_name(service_name) >>),
       Line("from_import", << <<>>, dto_service_name(service_name) \o RESPONSE_DTO >>,
            << response_class_name(service_name) >>),
       Blank,
       Line("__all__", <<>>,
            << request_class_name(service_name), response_class_name(service_name) >>) >>

\* ---------------------------------------------------- ServiceGenerator
NoConfig == [name |-> <<>>, module |-> <<>>, type |-> <<>>, create_dtos |-> FALSE]

svc_service_name(config) == lower(config.name)

service_dir(module_path, config) ==
    IF config.type = SHARED
    THEN module_path \o <<SERVICES, svc_service_name(config)>>
    ELSE module_path \o <<SERVICES, config.type>>

service_file(module_path, config) ==
    service_dir(module_path, config) \o <<svc_service_name(config) \o SERVICE_FILE \o PY>>

service_class_name(config) == pascal(config.name) \o Service

adapter_class_name(config) == pascal(config.type) \o Service

\* the template engine: the text of template `key` with its three parameters
render(key, service_name, request_dto, response_dto) ==
    << Line("template", <<key>>, <<service_name, request_dto, response_dto>>) >>

\* the service_name parameter handed to the template
template_service_name(config) == replace(service_class_name(config), Service, <<>>)

_get_template_content(config, request_class, response_class) ==
    render(config.type \o SERVICE_FILE,
           template_service_name(config),
           IF request_class # <<>> THEN request_class ELSE None,
           IF response_class # <<>> THEN response_class ELSE None)

\* the package named by the import line prepended to the service file
import_package(config) ==
    IF config.type = SHARED
    THEN <<SRC, MODULES, config.module, SERVICES, svc_service_name(config), DTOS>>
    ELSE <<SRC, MODULES, config.module, DTOS, svc_service_name(config)>>

import_line(config, request_class, response_class) ==
    << Line("from_import", import_package(config), <<request_class, response_class>>),
       Blank >>

service_content_never_import(config, request_class, response_class) ==
    _get_template_content(config, request_class, response_class)

\* the text ServiceGenerator.generate writes
service_content(config, request_class, response_class) ==
    IF config.create_dtos
    THEN import_line(config, request_class, response_class)
             \o _get_template_content(config, request_class, response_class)
    ELSE _get_template_content(config, request_class, response_class)

\* ------------------------------------------------------------- filesystem
\* Path.mkdir(parents=True, exist_ok=True)
mkdir(ds, p) == ds \cup { SubSeq(p, 1, k) : k \in 1..Len(p) }

\* Path.exists() of a file path
exists(fs, p) == p \in DOMAIN fs

\* Path.write_text(text)
write_text(fs, p, text) == [q \in (DOMAIN fs) \cup {p} |-> IF q = p THEN text ELSE fs[q]]

dtos_exist_request_only(fs, req, resp) == exists(fs, req)

dtos_exist_never(fs, req, resp) == FALSE

\* the check of DTOGenerator.generate before it writes
dtos_exist(fs, req, resp) == exists(fs, req) \/ exists(fs, resp)

service_exists_never(fs, p) == FALSE

\* the check of ServiceGenerator.generate before it writes
service_exists(fs, p) == exists(fs, p)

except_files_rollback(fs, fs0) == fs0

\* the disk after the except clause of generate_service: nothing is undone
except_files(fs, fs0) == fs

on_error_continue(step) == IF step = "dto" THEN "service" ELSE "idle"

\* the except clause of generate_service: print the error and return
on_error(step) == "idle"

\* ------------------------------------------------------------------ state
VARIABLES
    dirs,             \* the directories on disk (paths)
    files,            \* the files on disk: path -> text
    pc,               \* position of the running create-service command
    cmd,              \* the command issued last: "none", "s" or "m"
    runs,             \* commands issued so far
    config,           \* the ServiceConfig of the current command
    cfgRes,           \* outcome of get_service_config
    request_class,    \* locals of generate_service
    response_class,
    console,          \* what the current command has printed
    dtoRes,           \* outcome of DTOGenerator.generate in this command
    svcRes,           \* outcome of ServiceGenerator.generate in this command
    invoked,          \* the steps of this command, in the order they began
    dirs0,            \* the disk when this command started
    files0,
    dtoWritten,       \* paths DTOGenerator.generate wrote in this command
    svcWritten,       \* paths ServiceGenerator.generate wrote in this command
    filesAtService,   \* the files when ServiceGenerator.generate was entered
    emitted           \* the DTO pairs written so far, with their text

vars == << dirs, files, pc, cmd, runs, config, cfgRes, request_class,
           response_class, console, dtoRes, svcRes, invoked, dirs0, files0,
           dtoWritten, svcWritten, filesAtService, emitted >>

NoFiles == [p \in {} |-> Foreign]

Message(kind, path, err) == [kind |-> kind, path |-> path, err |-> err]

\* ------------------------------------------------- get_service_config
TypeInputs == 0..(Len(service_types) + 1)

Failure(err) == [res |-> err, config |-> NoConfig]

Success(name, module, type, create_dtos) ==
    [res |-> "ok",
     config |-> [name |-> name, module |-> module, type |-> type,
                 create_dtos |-> create_dtos]]

\* the module prompt over one enumeration of the catalog
module_outcomes(available_modules, name, selected_type) ==
    UNION { LET module_index == module_input - 1
            IN  IF module_index < 0 \/ module_index >= Len(available_modules)
                THEN { Failure("ValueError") }
                ELSE { Success(name, available_modules[module_index + 1],
                               selected_type, c) : c \in BOOLEAN }
            : module_input \in 0..(Len(available_modules) + 1) }

\* every ServiceConfig, or error, the prompts can end in on the disk ds
get_service_config(ds) ==
    UNION { LET type_index == type_input - 1
            IN  IF type_index < 0 \/ type_index >= Len(service_types)
                THEN { Failure("ValueError") }
                ELSE LET selected_type == service_types[type_index + 1]
                     IN  IF selected_type = SHARED
                         THEN { Success(name, SHARED, selected_type, c) : c \in BOOLEAN }
                         ELSE IF base_path \notin ds
                              THEN { Failure("FileNotFoundError") }
                              ELSE IF get_available_modules(ds) = {}
                                   THEN { Failure("FileNotFoundError") }
                                   ELSE UNION { module_outcomes(l, name, selected_type)
                                                : l \in Orderings(get_available_modules(ds)) }
            : type_input \in TypeInputs, name \in ServiceNames }

\* ------------------------------------------------------------------- Init
\* every (module, name, type) a command can be run for
Targets ==
    { [name |-> n, module |-> m, type |-> service_types[t], create_dtos |-> TRUE] :
          n \in ServiceNames, m \in ModuleNames, t \in 1..Len(service_types) }

ValidTargets == { c \in Targets : (c.type = SHARED) <=> (c.module = SHARED) }

\* the files the generators write for one target
TargetFiles(c) ==
    { request_file(get_module_path(c.module), c.name, c.type),
      response_file(get_module_path(c.module), c.name, c.type),
      init_file(get_module_path(c.module), c.name, c.type),
      service_file(get_module_path(c.module), c) }

parents(p) == { SubSeq(p, 1, k) : k \in 1..(Len(p) - 1) }

Init ==
    /\ \E c \in ValidTargets : \E pre \in SUBSET TargetFiles(c) :
          /\ Cardinality(pre) <= MaxPre
          /\ files = [p \in pre |-> Foreign]
          /\ dirs = UNION { parents(p) : p \in pre }
    /\ pc = "idle"
    /\ cmd = "none"
    /\ runs = 0
    /\ config = NoConfig
    /\ cfgRes = "none"
    /\ request_class = <<>>
    /\ response_class = <<>>
    /\ console = <<>>
    /\ dtoRes = "none"
    /\ svcRes = "none"
    /\ invoked = <<>>
    /\ dirs0 = {}
    /\ files0 = NoFiles
    /\ dtoWritten = {}
    /\ svcWritten = {}
    /\ filesAtService = NoFiles
    /\ emitted = {}

\* ---------------------------------------------------------------- actions
\* command "m": Path("src/modules/" + name).mkdir(parents=True, exist_ok=True)
generate_module ==
    /\ pc = "idle"
    /\ runs < MaxRuns
    /\ runs' = runs + 1
    /\ \E name \in ModuleNames : dirs' = mkdir(dirs, base_path \o <<name>>)
    /\ cmd' = "m"
    /\ console' = << Message("module_created", <<>>, "") >>
    /\ config' = NoConfig
    /\ cfgRes' = "none"
    /\ request_class' = <<>>
    /\ response_class' = <<>>
    /\ dtoRes' = "none"
    /\ svcRes' = "none"
    /\ invoked' = <<>>
    /\ dirs0' = {}
    /\ files0' = NoFiles
    /\ dtoWritten' = {}
    /\ svcWritten' = {}
    /\ filesAtService' = NoFiles
    /\ UNCHANGED << files, pc, emitted >>

\* command "s", first step: config = get_service_config(), module path resolved
generate_service_config ==
    /\ pc = "idle"
    /\ runs < MaxRuns
    /\ runs' = runs + 1
    /\ cmd' = "s"
    /\ dirs0' = dirs
    /\ files0' = files
    /\ request_class' = <<>>
    /\ response_class' = <<>>
    /\ dtoRes' = "none"
    /\ svcRes' = "none"
    /\ dtoWritten' = {}
    /\ svcWritten' = {}
    /\ filesAtService' = NoFiles
    /\ \E o \in get_service_config(dirs) :
          /\ cfgRes' = o.res
          /\ config' = o.config
          /\ IF o.res = "ok"
             THEN /\ console' = <<>>
                  /\ invoked' = << "config", "resolve" >>
                  /\ pc' = IF o.config.create_dtos THEN "dto" ELSE "service"
             ELSE /\ console' = << Message("error", <<>>, o.res) >>
                  /\ invoked' = << "config" >>
                  /\ pc' = on_error("config")
    /\ UNCHANGED << dirs, files, emitted >>

\* command "s", DTO step: DTOGenerator(module_path, name, type).generate()
generate_service_dtos ==
    /\ pc = "dto"
    /\ LET module_path == get_module_path(config.module)
           dir == dtos_dir(module_path, config.name, config.type)
           req == request_file(module_path, config.name, config.type)
           resp == response_file(module_path, config.name, config.type)
           init == init_file(module_path, config.name, config.type)
           req_cls == request_class_name(config.name)
           resp_cls == response_class_name(config.name)
       IN  /\ invoked' = Append(invoked, "dto")
           /\ dirs' = mkdir(dirs, dir)
           /\ IF dtos_exist(files, req, resp)
              THEN /\ dtoRes' = "FileExistsError"
                   /\ console' = Append(console, Message("error", <<>>, "FileExistsError"))
                   /\ pc' = on_error("dto")
                   /\ files' = except_files(files, files0)
                   /\ UNCHANGED << request_class, response_class,
                                   dtoWritten, emitted >>
              ELSE /\ dtoRes' = "ok"
                   /\ files' = write_text(
                                 write_text(
                                   write_text(files, req, dto_stub(req_cls)),
                                   resp, dto_stub(resp_cls)),
                                 init, init_content(config.name))
                   /\ dtoWritten' = {req, resp, init}
                   /\ request_class' = req_cls
                   /\ response_class' = resp_cls
                   /\ console' = Append(console, Message("dtos_created", dir, ""))
                   /\ emitted' = emitted \cup
                          { [module |-> config.module, name |-> config.name,
                             type |-> config.type,
                             request |-> dto_stub(req_cls),
                             response |-> dto_stub(resp_cls)] }
                   /\ pc' = "service"
    /\ UNCHANGED << cmd, runs, config, cfgRes, svcRes, dirs0, files0,
                    svcWritten, filesAtService >>

\* command "s", service step: ServiceGenerator(module_path, config).generate(...)
generate_service_service ==
    /\ pc = "service"
    /\ LET module_path == get_module_path(config.module)
           dir == service_dir(module_path, config)
           file == service_file(module_path, config)
       IN  /\ invoked' = Append(invoked, "service")
           /\ filesAtService' = files
           /\ dirs' = mkdir(dirs, dir)
           /\ IF service_exists(files, file)
              THEN /\ svcRes' = "FileExistsError"
                   /\ console' = Append(console, Message("error", <<>>, "FileExistsError"))
                   /\ pc' = on_error("service")
                   /\ files' = except_files(files, files0)
                   /\ UNCHANGED svcWritten
              ELSE /\ svcRes' = "ok"
                   /\ files' = write_text(files, file,
                                  service_content(config, request_class, response_class))
                   /\ svcWritten' = {file}
                   /\ console' = Append(console, Message("service_created", file, ""))
                   /\ pc' = "idle"
    /\ UNCHANGED << cmd, runs, config, cfgRes, request_class, response_class,
                    dtoRes, dirs0, files0, dtoWritten, emitted >>

Next ==
    \/ generate_module
    \/ generate_service_config
    \/ generate_service_dtos
    \/ generate_service_service

Spec == Init /\ [][Next]_vars

\* ----------------------------------------------------------- properties
\* paths of the current command
ModulePath == get_module_path(config.module)
RequestFile == request_file(ModulePath, config.name, config.type)
ResponseFile == response_file(ModulePath, config.name, config.type)
InitFile == init_file(ModulePath, config.name, config.type)
ServiceFile == service_file(ModulePath, config)
ServiceDir == service_dir(ModulePath, config)

IsPrefix(s, t) == Len(s) <= Len(t) /\ SubSeq(t, 1, Len(s)) = s

\* C1: whenever DTOGenerator.generate has run: if the request file or the
\* response file was on disk, it failed with FileExistsError and wrote
\* nothing (the disk is as it was); otherwise it succeeded and wrote exactly
\* the three files request stub, response stub and __init__.py.
C1_DtoPrecondition ==
    dtoRes # "none" =>
        IF RequestFile \in DOMAIN files0 \/ ResponseFile \in DOMAIN files0
        THEN /\ dtoRes = "FileExistsError"
             /\ dtoWritten = {}
             /\ files = files0
        ELSE /\ dtoRes = "ok"
             /\ dtoWritten = {RequestFile, ResponseFile, InitFile}
             /\ Cardinality(dtoWritten) = 3
             /\ dtoWritten \subseteq DOMAIN files
             /\ files[RequestFile] = dto_stub(request_class_name(config.name))
             /\ files[ResponseFile] = dto_stub(response_class_name(config.name))
             /\ files[InitFile] = init_content(config.name)
             /\ \A p \in DOMAIN files : p \in DOMAIN files0 \/ p \in dtoWritten \cup svcWritten

\* only the response file was there: the emit failed, the request file and
\* the __init__.py were not written
C1_Witness ==
    /\ dtoRes = "FileExistsError"
    /\ ResponseFile \in DOMAIN files0
    /\ RequestFile \notin DOMAIN files
    /\ InitFile \notin DOMAIN files

SameArgs(e) ==
    e.module = config.module /\ e.name = config.name /\ e.type = config.type

\* C2: once a DTO pair has been emitted for (module, name, type), every step
\* leaves the text of its request and response files as first written, and
\* every later emit with the same arguments fails with FileExistsError.
C2_NoReEmit ==
    [][ /\ \A e \in emitted :
              LET mp == get_module_path(e.module)
                  req == request_file(mp, e.name, e.type)
                  resp == response_file(mp, e.name, e.type)
              IN  /\ req \in DOMAIN files' /\ files'[req] = e.request
                  /\ resp \in DOMAIN files' /\ files'[resp] = e.response
        /\ (pc = "dto" /\ \E e \in emitted : SameArgs(e))
               => (dtoRes' = "FileExistsError" /\ emitted' = emitted)
      ]_vars

\* a second emit with the arguments of an earlier one has failed
C2_Witness ==
    /\ dtoRes = "FileExistsError"
    /\ \E e \in emitted : SameArgs(e) /\ files[RequestFile] = e.request
                                      /\ files[ResponseFile] = e.response

\* C3: whenever ServiceGenerator.generate was entered with the service file
\* on disk, it failed with FileExistsError and wrote nothing: the files are
\* those it found, and the service file has the text it had at the start.
C3_ServiceDuplicate ==
    (svcRes # "none" /\ ServiceFile \in DOMAIN filesAtService) =>
        /\ svcRes = "FileExistsError"
        /\ svcWritten = {}
        /\ files = filesAtService
        /\ ServiceFile \in DOMAIN files0
        /\ files[ServiceFile] = files0[ServiceFile]

\* the duplicate was met after the DTOs of the same command were written
C3_Witness ==
    /\ svcRes = "FileExistsError"
    /\ config.create_dtos
    /\ dtoRes = "ok"
    /\ files[ServiceFile] = Foreign

ExpectedSteps ==
    IF cfgRes # "ok" THEN << "config" >>
    ELSE << "config", "resolve" >>
             \o (IF config.create_dtos THEN << "dto" >> ELSE <<>>)
             \o << "service" >>

ServiceReported == \E i \in 1..Len(console) : console[i].kind = "service_created"

\* C4: the steps of a create-service command begin in the order config,
\* resolve, DTO emit (only with create_dtos), service emit; after a failed
\* configuration nothing on disk has changed; after a failed DTO emit the
\* service emit never begins, no service directory or service file is
\* created and no service path is printed.
C4_StepOrder ==
    cmd = "s" =>
        /\ IsPrefix(invoked, ExpectedSteps)
        /\ cfgRes # "ok" =>
              /\ invoked = << "config" >>
              /\ files = files0 /\ dirs = dirs0
              /\ dtoRes = "none" /\ svcRes = "none"
              /\ pc = "idle"
        /\ dtoRes = "FileExistsError" =>
              /\ pc = "idle"
              /\ svcRes = "none"
              /\ \A i \in 1..Len(invoked) : invoked[i] # "service"
              /\ ServiceDir \in dirs => ServiceDir \in dirs0
              /\ ServiceFile \in DOMAIN files => ServiceFile \in DOMAIN files0
              /\ ~ServiceReported
        /\ svcRes # "none" => (config.create_dtos <=> dtoRes = "ok")
        /\ ServiceReported => svcRes = "ok"

\* the DTO emit failed and the service directory does not exist
C4_Witness ==
    /\ cmd = "s"
    /\ dtoRes = "FileExistsError"
    /\ ServiceDir \notin dirs
    /\ invoked = << "config", "resolve", "dto" >>

RunPreC5 ==
    /\ cmd = "s" /\ pc = "idle" /\ cfgRes = "ok"
    /\ config.create_dtos
    /\ RequestFile \notin DOMAIN files0
    /\ ResponseFile \notin DOMAIN files0
    /\ ServiceFile \in DOMAIN files0

\* C5: at the end of a command with create_dtos that found no DTO file but
\* found the service file: the DTO emit succeeded, the service emit failed
\* with FileExistsError, the three DTO files are on disk with the generated
\* text and the service file has the text it had at the start.
C5_NoRollback ==
    RunPreC5 =>
        /\ dtoRes = "ok"
        /\ svcRes = "FileExistsError"
        /\ {RequestFile, ResponseFile, InitFile} \subseteq DOMAIN files
        /\ files[RequestFile] = dto_stub(request_class_name(config.name))
        /\ files[ResponseFile] = dto_stub(response_class_name(config.name))
        /\ files[InitFile] = init_content(config.name)
        /\ files[ServiceFile] = files0[ServiceFile]

C5_Witness == RunPreC5 /\ svcRes = "FileExistsError" /\ InitFile \in DOMAIN files

ImportLines(text) == { i \in 1..Len(text) : text[i].kind = "from_import" }

\* C6: a service file just written starts with one import line naming the
\* request and response DTO classes, followed by the rendered body, when
\* create_dtos is true, and is the rendered body alone when it is false.
C6_ImportIffDtos ==
    svcRes = "ok" =>
        LET text == files[ServiceFile]
            body == _get_template_content(config, request_class, response_class)
        IN  IF config.create_dtos
            THEN /\ Cardinality(ImportLines(text)) = 1
                 /\ text[1].kind = "from_import"
                 /\ text[1].names = << request_class_name(config.name),
                                       response_class_name(config.name) >>
                 /\ text[2] = Blank
                 /\ SubSeq(text, 3, Len(text)) = body
            ELSE /\ ImportLines(text) = {}
                 /\ text = body

C6_Witness ==
    /\ svcRes = "ok"
    /\ config.create_dtos
    /\ files[ServiceFile][1].kind = "from_import"

\* C7: every ServiceConfig the prompts produce has type "shared" exactly
\* when its module is "shared".
C7_SharedIffShared ==
    cfgRes = "ok" => ((config.type = SHARED) <=> (config.module = SHARED))

\* a module was picked from the catalog while src/modules/shared existed
C7_Witness ==
    /\ cfgRes = "ok"
    /\ config.type # SHARED
    /\ get_module_path(SHARED) \in dirs0

\* C8: the service_name parameter of the rendered template equals the
\* PascalCase form of the service name.
C8_TemplateServiceName ==
    svcRes = "ok" =>
        LET text == files[ServiceFile]
        IN  text[Len(text)].names[1] = pascal(config.name)

\* C9: in a successful command with create_dtos, the package of the import
\* line is the directory the DTO files of that command were written to.
C9_ImportMatchesDtoDir ==
    (svcRes = "ok" /\ config.create_dtos) =>
        \A p \in dtoWritten : SubSeq(p, 1, Len(p) - 1) = files[ServiceFile][1].pkg

\* C10: a create-service command changes no file that was on disk when it
\* started, and writes only to paths that were not on disk then.
C10_NoOverwrite ==
    cmd = "s" =>
        /\ \A p \in DOMAIN files0 : p \in DOMAIN files /\ files[p] = files0[p]
        /\ (dtoWritten \cup svcWritten) \cap DOMAIN files0 = {}

====
